---- MODULE Spec2Model ----
(***************************************************************************)
(* The CodeEditor screen of components/test/CodeEditor.tsx: the React      *)
(* component's state, its event handlers, the two await points of          *)
(* handleSubmit and the collaborators it calls.                            *)
(*                                                                         *)
(* One action is one event of the single-threaded event loop: a user       *)
(* event with the render it causes, the settling of one awaited promise    *)
(* with the continuation that follows it, a change made by the environment *)
(* (parent props, auth context, unmount), the effect that a render leaves  *)
(* to run after the paint, or the render of the updates that were queued   *)
(* outside a user event.  The state variables hold the last committed      *)
(* render: what the handlers' closures see.  A setter called by a          *)
(* continuation or by the effect only queues its update; the update is     *)
(* committed by the next render that is not the render of a user event.    *)
(*                                                                         *)
(* An optional value (undefined / absent field) is the empty tuple <<>>; a  *)
(* present value v is <<v>>.  The prop initialStoredCode, whose undefined   *)
(* and null are different dependencies of the effect, is a record with the *)
(* JavaScript type of the value.                                           *)
(***************************************************************************)
EXTENDS Integers, Sequences, FiniteSets, TLC

\* ------------------------------------------------------------------ bounds
\* how many entries of `languages` the user picks from
NumLanguages == 2
\* testStatus.attemptsRemaining ranges over 0..MaxAttempts
MaxAttempts == 1

\* --------------------------------------------------------------- constants
\* the values of the `languages` array, in order
languages == <<"python", "javascript", "java", "cpp">>

Language == {languages[i] : i \in 1..NumLanguages}

defaultCode ==
  [python     |-> "# Write your Python code here",
   javascript |-> "// Write your JavaScript code here",
   java       |-> "// Write your Java code here",
   cpp        |-> "// Write your C++ code here"]

\* the route handed to router.push
CompleteRoute == "/test-complete"

\* the URL handed to fetch
SubmitUrl == "/api/coding-problem"

\* ------------------------------------------------------------ input ranges
None == <<>>

Some(v) == <<v>>

QuestionIds == {"q1", "q2"}

\* the values of `initialStoredCode?: string | null`
Undefined == [type |-> "undefined"]

Null == [type |-> "null"]

Str(s) == [type |-> "string", value |-> s]

\* what the parent may pass as initialStoredCode: nothing, null or a saved
\* text, which is a text the editor can hold
StoredCodes == {Undefined, Null, Str("print(1)")}

\* what the editor may pass to onChange: undefined or a text
EditorValues == {None, Some("print(1)")}

\* the error field of a response body: absent or a message
Errors == {None, Some("timeout")}

\* the nextQuestion field of a response body: absent or a question
NextQuestions == {None, Some("q2")}

\* the parsed body of a response
ResponseData == [error : Errors, isComplete : BOOLEAN, nextQuestion : NextQuestions]

\* how the promise returned by fetch settles
FetchOutcomes == {"rejected", "notOk", "ok"}

Attempts == 0..MaxAttempts


\* ------------------------------------------------------------------- state
VARIABLES
  language,            \* useState<Language>
  code,                \* useState(code)
  isSubmitting,        \* useState(false)
  showErrorDialog,     \* useState(false)
  showReattemptDialog, \* useState(false)
  submissionResponse,  \* useState<any>(null)
  currentQuestionId,   \* prop
  initialStoredCode,   \* prop
  attemptsRemaining,   \* useAuth().testStatus.attemptsRemaining
  mounted,             \* the component is on screen
  inflight,            \* the handleSubmit invocations suspended at an await
  route,               \* the last route handed to router.push, if any
  submitted,           \* the code of the last request body sent, if any
  calls,               \* the collaborator calls made by the last event
  effect,              \* the useEffect: "idle" or "scheduled" (not run yet)
  queued,              \* per state hook, the update that is not rendered yet
  choicePending        \* history: the reattempt dialog was requested and
                       \* neither "Reattempt" nor "Finish Test" chosen since

vars == <<language, code, isSubmitting, showErrorDialog, showReattemptDialog,
          submissionResponse, currentQuestionId, initialStoredCode,
          attemptsRemaining, mounted, inflight, route, submitted, calls,
          effect, queued, choicePending>>

state == <<language, code, isSubmitting, showErrorDialog, showReattemptDialog,
           submissionResponse>>

props == <<currentQuestionId, initialStoredCode>>

\* ----------------------------------------------------------------- helpers
\* JavaScript truthiness of an optional string
Truthy(opt) == opt # None /\ opt[1] # ""

\* JavaScript truthiness of a value of initialStoredCode
StoredTruthy(stored) == stored.type = "string" /\ stored.value # ""

\* initialStoredCode || defaultCode[language]
StoredOrDefault(stored, lang) ==
  IF StoredTruthy(stored) THEN stored.value ELSE defaultCode[lang]

\* no state hook has an update that is not rendered
NoQueue ==
  [code |-> None, isSubmitting |-> None, showErrorDialog |-> None,
   showReattemptDialog |-> None, submissionResponse |-> None]

\* what is left to render on a hook whose last queued update sets new while
\* the committed value is old: setting what is there changes nothing
Update(new, old) == IF new = old THEN None ELSE Some(new)

\* the value of a hook after the render of its queued update q, from the
\* committed value old
Due(q, old) == IF q = None THEN old ELSE q[1]

\* a state setter called outside a user event with the optional value write,
\* on a hook with queued update q and committed value old: the update is
\* queued behind q; a setter that is not called, or is called after the
\* component was unmounted, changes nothing
SetState(write, q, old) ==
  IF mounted /\ write # None THEN Update(write[1], old) ELSE q

\* setCode(initialStoredCode || defaultCode[language]) of the effect, as the
\* update left to render when the committed code is c
EffectCode(stored, lang, c) == Update(StoredOrDefault(stored, lang), c)

\* the queued update of the code after the render of a user event that
\* commits code c: an effect that is scheduled runs before that render, and
\* its setCode is queued behind the event's; without it, a setCode of the
\* event (wrote) overwrites the update that was queued before
Flushed(wrote, c) ==
  IF effect = "scheduled" THEN EffectCode(initialStoredCode, language, c)
  ELSE IF wrote THEN None ELSE queued.code

\* the code committed by a render that is not the render of a user event: an
\* effect that is scheduled runs before it, so its setCode is the last queued
AfterRender ==
  IF effect = "scheduled" THEN StoredOrDefault(initialStoredCode, language)
  ELSE Due(queued.code, code)

\* the collaborator calls
Call(fn, args) == [fn |-> fn, args |-> args]

FetchCall(req) ==
  Call("fetch", <<SubmitUrl, req.questionId, req.code, req.language>>)

ToastSuccess == Call("showToast", <<"Code submitted successfully", "default">>)

ToastFailure ==
  Call("showToast", <<"Failed to submit code. Please try again.", "destructive">>)

MarkCall == Call("markTestAsCompleted", <<>>)

PushCall == Call("router.push", <<CompleteRoute>>)

QuestionChangeCall(q) == Call("onQuestionChange", <<q>>)

TestCompleteCall(code_) == Call("onTestComplete", <<"true", code_>>)

Fns(cs) == {cs[i].fn : i \in DOMAIN cs}

RemoveAt(s, i) == SubSeq(s, 1, i - 1) \o SubSeq(s, i + 1, Len(s))

\* ------------------------------------------------------------------- Init
\* the first commit: the effect of the mount is left to run after the paint
Init ==
  /\ initialStoredCode \in StoredCodes
  /\ currentQuestionId \in QuestionIds
  /\ attemptsRemaining \in Attempts
  /\ language = "python"
  /\ code = StoredOrDefault(initialStoredCode, language)
  /\ isSubmitting = FALSE
  /\ showErrorDialog = FALSE
  /\ showReattemptDialog = FALSE
  /\ submissionResponse = None
  /\ mounted = TRUE
  /\ inflight = <<>>
  /\ route = None
  /\ submitted = None
  /\ calls = <<>>
  /\ effect = "scheduled"
  /\ queued = NoQueue
  /\ choicePending = FALSE

\* ------------------------------------------------------------ user events
\* <Select onValueChange>: handleLanguageChange and the render it causes;
\* with another language the effect runs after that render, and its setCode
\* is queued.  Setting what is there with nothing queued causes no render.
handleLanguageChange(value) ==
  /\ mounted
  /\ calls' = <<>>
  /\ IF value # language \/ defaultCode[value] # code \/ queued # NoQueue
     THEN /\ language' = value
          /\ code' = defaultCode[value]
          /\ queued' = [queued EXCEPT !.code =
                          IF value # language
                          THEN EffectCode(initialStoredCode, value, defaultCode[value])
                          ELSE Flushed(TRUE, defaultCode[value])]
          /\ effect' = "idle"
     ELSE UNCHANGED <<language, code, queued, effect>>
  /\ UNCHANGED <<isSubmitting, showErrorDialog, showReattemptDialog,
                 submissionResponse, props, attemptsRemaining, mounted,
                 inflight, route, submitted, choicePending>>

\* <Editor onChange>
handleEditorChange(value) ==
  /\ mounted
  /\ calls' = <<>>
  /\ IF value # None /\ (value[1] # code \/ queued # NoQueue)
     THEN /\ code' = value[1]
          /\ queued' = [queued EXCEPT !.code = Flushed(TRUE, value[1])]
          /\ effect' = "idle"
     ELSE UNCHANGED <<code, queued, effect>>
  /\ UNCHANGED <<language, isSubmitting, showErrorDialog, showReattemptDialog,
                 submissionResponse, props, attemptsRemaining, mounted,
                 inflight, route, submitted, choicePending>>

\* a Submit button without `disabled`
SubmitEnabledAlways == TRUE

\* the Submit button takes a click unless it is disabled
SubmitEnabled == ~isSubmitting

\* a request built from the language's template instead of the editor's code
ClosureTemplateCode ==
  [questionId |-> currentQuestionId, code |-> defaultCode[language],
   language |-> language, attemptsRemaining |-> attemptsRemaining,
   stage |-> "fetch"]

\* what the closure of one handleSubmit invocation holds: the values of the
\* render in which the button was clicked
Closure ==
  [questionId |-> currentQuestionId, code |-> code, language |-> language,
   attemptsRemaining |-> attemptsRemaining, stage |-> "fetch"]

\* handleSubmit up to `await fetch(...)`, and the render of setIsSubmitting(true)
handleSubmit ==
  /\ mounted
  /\ SubmitEnabled
  /\ isSubmitting' = TRUE
  /\ inflight' = Append(inflight, Closure)
  /\ submitted' = Some(code)
  /\ calls' = <<FetchCall(Closure)>>
  /\ queued' = [queued EXCEPT !.isSubmitting = None,
                              !.code = Flushed(FALSE, code)]
  /\ effect' = "idle"
  /\ UNCHANGED <<language, code, showErrorDialog, showReattemptDialog,
                 submissionResponse, props, attemptsRemaining, mounted, route,
                 choicePending>>

\* ------------------------------------------------ handleSubmit, continued
\* Classify with the reattempt test `>= 0` for `> 0`
ClassifyOfferAtZero(req, data) ==
  IF Truthy(data.error) THEN "failure"
  ELSE IF data.isComplete
       THEN IF req.attemptsRemaining >= 0 THEN "offer" ELSE "auto"
       ELSE IF data.nextQuestion # None THEN "advance" ELSE "none"

\* Classify with the isComplete test ahead of the error test
ClassifyCompleteFirst(req, data) ==
  IF data.isComplete
  THEN IF req.attemptsRemaining > 0 THEN "offer" ELSE "auto"
  ELSE IF Truthy(data.error) THEN "failure"
       ELSE IF data.nextQuestion # None THEN "advance" ELSE "none"

\* Classify with the nextQuestion test ahead of the isComplete test
ClassifyAdvanceFirst(req, data) ==
  IF Truthy(data.error) THEN "failure"
  ELSE IF data.nextQuestion # None THEN "advance"
       ELSE IF data.isComplete
            THEN IF req.attemptsRemaining > 0 THEN "offer" ELSE "auto"
            ELSE "none"

\* Classify with a final else that throws
ClassifyNoneThrows(req, data) ==
  IF Truthy(data.error) THEN "failure"
  ELSE IF data.isComplete
       THEN IF req.attemptsRemaining > 0 THEN "offer" ELSE "auto"
       ELSE IF data.nextQuestion # None THEN "advance" ELSE "failure"

\* which exit of the try block a parsed body takes, as the closure sees it
Classify(req, data) ==
  IF Truthy(data.error) THEN "failure"
  ELSE IF data.isComplete
       THEN IF req.attemptsRemaining > 0 THEN "offer" ELSE "auto"
       ELSE IF data.nextQuestion # None THEN "advance" ELSE "none"

\* the collaborator calls of each exit, in order
ExitCalls(kind, data) ==
  CASE kind = "failure" -> <<ToastFailure>>
    [] kind = "offer"   -> <<ToastSuccess>>
    [] kind = "auto"    -> <<ToastSuccess, MarkCall, PushCall>>
    [] kind = "advance" -> <<ToastSuccess, QuestionChangeCall(data.nextQuestion[1])>>
    [] kind = "none"    -> <<ToastSuccess>>

\* ExitCode with the reset of the editor moved to where every exit passes
ExitCodeEveryExit(kind, req) == Some(defaultCode[req.language])

\* setCode(defaultCode[language]) of the advance exit, with the closure's
\* language; the other exits do not call setCode
ExitCode(kind, req) ==
  IF kind = "advance" THEN Some(defaultCode[req.language]) ELSE None

\* setShowErrorDialog(true) of the catch block
ExitErrorDialog(kind) == IF kind = "failure" THEN Some(TRUE) ELSE None

\* setShowReattemptDialog(true) of the offer exit
ExitReattemptDialog(kind) == IF kind = "offer" THEN Some(TRUE) ELSE None

\* setSubmissionResponse(data) of the offer exit
ExitResponse(kind, data) == IF kind = "offer" THEN Some(Some(data)) ELSE None

\* setIsSubmitting(false) as the last statement of the try block instead
ExitSubmittingInTry(kind) == IF kind = "failure" THEN None ELSE Some(FALSE)

\* setIsSubmitting(false) of the finally block
ExitSubmitting(kind) == Some(FALSE)

\* the continuation of invocation i from the await that settled to the end
\* of the finally block: the collaborators are called, the setters queue
\* their updates, nothing is committed
Exit(i, kind, data) ==
  /\ inflight' = RemoveAt(inflight, i)
  /\ queued' =
       [code |-> SetState(ExitCode(kind, inflight[i]), queued.code, code),
        isSubmitting |->
          SetState(ExitSubmitting(kind), queued.isSubmitting, isSubmitting),
        showErrorDialog |->
          SetState(ExitErrorDialog(kind), queued.showErrorDialog, showErrorDialog),
        showReattemptDialog |->
          SetState(ExitReattemptDialog(kind), queued.showReattemptDialog,
                   showReattemptDialog),
        submissionResponse |->
          SetState(ExitResponse(kind, data), queued.submissionResponse,
                   submissionResponse)]
  /\ route' = IF kind = "auto" THEN Some(CompleteRoute) ELSE route
  /\ calls' = ExitCalls(kind, data)
  /\ choicePending' =
       (choicePending \/ (mounted /\ ExitReattemptDialog(kind) = Some(TRUE)))
  /\ UNCHANGED <<state, props, attemptsRemaining, mounted, submitted, effect>>

\* a body no exit reads: the one the catch block is entered without
NoData == [error |-> None, isComplete |-> FALSE, nextQuestion |-> None]

\* `await fetch(...)` settles: a rejection or a non-ok status throws, an ok
\* response goes on to `await response.json()`
FetchSettles(i, outcome) ==
  /\ i \in DOMAIN inflight /\ inflight[i].stage = "fetch"
  /\ IF outcome = "ok"
     THEN /\ inflight' = [inflight EXCEPT ![i].stage = "json"]
          /\ calls' = <<>>
          /\ UNCHANGED <<state, props, attemptsRemaining, mounted, route,
                         submitted, effect, queued, choicePending>>
     ELSE Exit(i, "failure", NoData)

\* `await response.json()` rejects: the body is no JSON
JsonRejects(i) ==
  /\ i \in DOMAIN inflight /\ inflight[i].stage = "json"
  /\ Exit(i, "failure", NoData)

\* `await response.json()` resolves with the parsed body
JsonResolves(i, data) ==
  /\ i \in DOMAIN inflight /\ inflight[i].stage = "json"
  /\ Exit(i, Classify(inflight[i], data), data)

\* ---------------------------------------------------------------- dialogs
\* the error dialog's onOpenChange(false) and its Close button
closeErrorDialog ==
  /\ mounted /\ showErrorDialog
  /\ showErrorDialog' = FALSE
  /\ calls' = <<>>
  /\ queued' = [queued EXCEPT !.showErrorDialog = None,
                              !.code = Flushed(FALSE, code)]
  /\ effect' = "idle"
  /\ UNCHANGED <<language, code, isSubmitting, showReattemptDialog,
                 submissionResponse, props, attemptsRemaining, mounted,
                 inflight, route, submitted, choicePending>>

\* a "Reattempt Test" item that is always rendered
ReattemptOfferedAlways == TRUE

\* the "Reattempt Test" item is rendered only with attempts remaining
ReattemptOffered == attemptsRemaining > 0

\* handleReattempt handing on the code of the request instead
ReattemptSubmittedCode == submitted[1]

\* the second argument of onTestComplete in handleReattempt
ReattemptCode == code

handleReattempt ==
  /\ mounted /\ showReattemptDialog /\ ReattemptOffered
  /\ showReattemptDialog' = FALSE
  /\ calls' = <<TestCompleteCall(ReattemptCode)>>
  /\ queued' = [queued EXCEPT !.showReattemptDialog = None,
                              !.code = Flushed(FALSE, code)]
  /\ effect' = "idle"
  /\ choicePending' = FALSE
  /\ UNCHANGED <<language, code, isSubmitting, showErrorDialog,
                 submissionResponse, props, attemptsRemaining, mounted,
                 inflight, route, submitted>>

\* the collaborator calls of handleFinishTest, in order
FinishCalls == <<MarkCall, PushCall>>

\* the "Finish Test" item: handleFinishTest makes its two calls; it calls no
\* setter, so nothing is rendered
handleFinishTest ==
  /\ mounted /\ showReattemptDialog
  /\ calls' = FinishCalls
  /\ route' = IF "router.push" \in Fns(FinishCalls) THEN Some(CompleteRoute) ELSE route
  /\ choicePending' = FALSE
  /\ UNCHANGED <<state, props, attemptsRemaining, mounted, inflight, submitted,
                 effect, queued>>

\* the reattempt dialog's onOpenChange(false): setShowReattemptDialog(false)
dismissReattemptDialog ==
  /\ mounted /\ showReattemptDialog
  /\ showReattemptDialog' = FALSE
  /\ calls' = <<>>
  /\ queued' = [queued EXCEPT !.showReattemptDialog = None,
                              !.code = Flushed(FALSE, code)]
  /\ effect' = "idle"
  /\ UNCHANGED <<language, code, isSubmitting, showErrorDialog,
                 submissionResponse, props, attemptsRemaining, mounted,
                 inflight, route, submitted, choicePending>>

\* ---------------------------------------------------------------- renders
\* a render that is not the render of a user event commits every queued
\* update, behind the setCode of an effect that was scheduled
Commit ==
  /\ code' = AfterRender
  /\ isSubmitting' = Due(queued.isSubmitting, isSubmitting)
  /\ showErrorDialog' = Due(queued.showErrorDialog, showErrorDialog)
  /\ showReattemptDialog' = Due(queued.showReattemptDialog, showReattemptDialog)
  /\ submissionResponse' = Due(queued.submissionResponse, submissionResponse)
  /\ queued' = NoQueue
  /\ UNCHANGED language

\* the render of the updates queued by a continuation or by the effect
render ==
  /\ mounted /\ queued # NoQueue
  /\ Commit
  /\ effect' = "idle"
  /\ calls' = <<>>
  /\ UNCHANGED <<props, attemptsRemaining, mounted, inflight, route, submitted,
                 choicePending>>

\* the effect a render has scheduled runs: it calls setCode
useEffect ==
  /\ mounted /\ effect = "scheduled"
  /\ queued' = [queued EXCEPT !.code = EffectCode(initialStoredCode, language, code)]
  /\ effect' = "idle"
  /\ calls' = <<>>
  /\ UNCHANGED <<state, props, attemptsRemaining, mounted, inflight, route,
                 submitted, choicePending>>

\* ------------------------------------------------------------ environment
\* the parent renders the component with other props: the render commits,
\* and when initialStoredCode is another value (undefined and null differ)
\* the effect is left to run after the paint
PropsChange(questionId, stored) ==
  /\ mounted
  /\ <<questionId, stored>> # props
  /\ currentQuestionId' = questionId
  /\ initialStoredCode' = stored
  /\ Commit
  /\ effect' = IF stored # initialStoredCode THEN "scheduled" ELSE "idle"
  /\ calls' = <<>>
  /\ UNCHANGED <<attemptsRemaining, mounted, inflight, route, submitted,
                 choicePending>>

\* the auth context publishes another testStatus
TestStatusChange(n) ==
  /\ mounted
  /\ n # attemptsRemaining
  /\ attemptsRemaining' = n
  /\ Commit
  /\ effect' = "idle"
  /\ calls' = <<>>
  /\ UNCHANGED <<props, mounted, inflight, route, submitted, choicePending>>

\* the screen is left: the component is unmounted, and with it the effect
\* and the updates that were pending
Unmount ==
  /\ mounted
  /\ mounted' = FALSE
  /\ effect' = "idle"
  /\ queued' = NoQueue
  /\ calls' = <<>>
  /\ UNCHANGED <<state, props, attemptsRemaining, inflight, route, submitted,
                 choicePending>>

\* ------------------------------------------------------------------- Next
Next ==
  \/ \E value \in Language : handleLanguageChange(value)
  \/ \E value \in EditorValues : handleEditorChange(value)
  \/ handleSubmit
  \/ \E i \in DOMAIN inflight, outcome \in FetchOutcomes : FetchSettles(i, outcome)
  \/ \E i \in DOMAIN inflight : JsonRejects(i)
  \/ \E i \in DOMAIN inflight, data \in ResponseData : JsonResolves(i, data)
  \/ closeErrorDialog
  \/ handleReattempt
  \/ handleFinishTest
  \/ dismissReattemptDialog
  \/ \E questionId \in QuestionIds, stored \in StoredCodes :
       PropsChange(questionId, stored)
  \/ \E n \in Attempts : TestStatusChange(n)
  \/ useEffect
  \/ render
  \/ Unmount

Spec == Init /\ [][Next]_vars

\* every awaited promise that can settle does settle, and its continuation runs
Settles ==
  \/ \E i \in DOMAIN inflight, outcome \in FetchOutcomes : FetchSettles(i, outcome)
  \/ \E i \in DOMAIN inflight : JsonRejects(i)
  \/ \E i \in DOMAIN inflight, data \in ResponseData : JsonResolves(i, data)

\* continuations run, and the scheduler renders the updates that are queued
FairSpec == Spec /\ WF_vars(Settles) /\ WF_vars(render)

\* ================================================================ claims
\* how often collaborator fn is called in the call list cs
Count(cs, fn) == Cardinality({i \in DOMAIN cs : cs[i].fn = fn})

\* the values the next render commits, as far as they are queued
DueSubmitting == Due(queued.isSubmitting, isSubmitting)

DueErrorDialog == Due(queued.showErrorDialog, showErrorDialog)

DueReattemptDialog == Due(queued.showReattemptDialog, showReattemptDialog)

DueResponse == Due(queued.submissionResponse, submissionResponse)

\* the step takes setIsSubmitting(false) from the queue of a mounted screen:
\* then it commits it
SubmittingRendered ==
  (queued.isSubmitting = Some(FALSE) /\ queued'.isSubmitting = None /\ mounted')
    => ~isSubmitting'

\* the step takes setShowErrorDialog(true) from the queue of a mounted
\* screen: then it commits it
ErrorDialogRendered ==
  (queued.showErrorDialog = Some(TRUE) /\ queued'.showErrorDialog = None /\ mounted')
    => showErrorDialog'

\* the step takes setShowReattemptDialog(true) and setSubmissionResponse from
\* the queue of a mounted screen: then it commits them
ReattemptDialogRendered ==
  (queued.showReattemptDialog = Some(TRUE) /\ queued'.showReattemptDialog = None
     /\ mounted')
    => (showReattemptDialog' /\ submissionResponse' = DueResponse)

\* the submitting flag is released, as far as there still is a screen
Released == mounted => ~isSubmitting

\* the step ends a handleSubmit invocation
Ends == Len(inflight') < Len(inflight)

\* some invocation's network call has returned a response whose body is awaited
Returned == \E i \in DOMAIN inflight : inflight[i].stage = "json"

\* JsonResolves(i, data) takes the session-complete exit of the try block
CompleteExit(i, data) ==
  /\ Ends
  /\ ~Truthy(data.error)
  /\ data.isComplete
  /\ JsonResolves(i, data)

\* the step ends invocation i in the catch block: fetch rejected, the status
\* was not ok, the body was no JSON, or the body carries an error
FailureExit(i) ==
  /\ Ends
  /\ \/ FetchSettles(i, "rejected")
     \/ FetchSettles(i, "notOk")
     \/ JsonRejects(i)
     \/ \E data \in ResponseData : Truthy(data.error) /\ JsonResolves(i, data)

\* JsonResolves(i, data) takes the next-question exit of the try block
AdvanceExit(i, data) ==
  /\ Ends
  /\ ~Truthy(data.error)
  /\ ~data.isComplete
  /\ data.nextQuestion # None
  /\ JsonResolves(i, data)

\* C1: at most one request is in flight in every reachable state: while the
\* submitting flag is true the Submit button takes no click, so no second
\* network call is issued.
C1_AtMostOneInFlight == Len(inflight) <= 1

\* C1 witness: a request is in flight on a mounted screen, and the submit
\* action is not enabled.
C1_Witness ==
  /\ isSubmitting /\ Len(inflight) = 1
  /\ mounted
  /\ ~ENABLED handleSubmit

\* C2 as claimed: once the network call of a submission has returned, the
\* submitting flag is false at some later time.
C2_EventuallyFalse == Returned ~> ~isSubmitting

\* C2 amended: every exit of handleSubmit on a mounted screen queues
\* setIsSubmitting(false), the queued update leaves the queue only by being
\* committed, and once the network call has returned the flag is false at
\* some later time unless the screen is unmounted before.
C2_FlagReleased ==
  /\ [][(mounted /\ Ends) => (queued'.isSubmitting = Some(FALSE) /\ ~DueSubmitting')]_vars
  /\ [][SubmittingRendered]_vars
  /\ (Returned ~> Released)

\* C2 witness: a submission has failed, the render after it has committed
\* the error dialog and the flag is false again.
C2_Witness ==
  /\ submitted # None /\ inflight = <<>> /\ queued = NoQueue
  /\ mounted /\ showErrorDialog /\ ~isSubmitting

\* C3: a response with isComplete = true handled with attemptsRemaining = 0
\* does not open the reattempt dialog, and calls markTestAsCompleted once and
\* router.push('/test-complete') once.
C3_AutoComplete ==
  [][\A i \in DOMAIN inflight, data \in ResponseData :
       (inflight[i].attemptsRemaining = 0 /\ CompleteExit(i, data))
         => /\ showReattemptDialog' = showReattemptDialog
            /\ queued'.showReattemptDialog = queued.showReattemptDialog
            /\ Count(calls', "markTestAsCompleted") = 1
            /\ Count(calls', "router.push") = 1
            /\ PushCall \in {calls'[k] : k \in DOMAIN calls'}
            /\ route' = Some(CompleteRoute)
            /\ i \notin DOMAIN inflight']_vars

\* C3 witness: the automatic completion has just happened, no dialog is open
\* and none is queued to open.
C3_Witness ==
  /\ calls = <<ToastSuccess, MarkCall, PushCall>>
  /\ mounted /\ ~DueReattemptDialog /\ route = Some(CompleteRoute)

\* C4 as claimed: a response with isComplete = true handled with
\* attemptsRemaining > 0 opens the reattempt dialog (the next render shows
\* it) with the response stored, calling neither markTestAsCompleted nor
\* router.push; and from then until the user chooses "Reattempt" or "Finish
\* Test", no step calls either but the choice "Finish Test" itself.
C4_ReattemptOffered ==
  /\ [][\A i \in DOMAIN inflight, data \in ResponseData :
          (mounted /\ inflight[i].attemptsRemaining > 0 /\ CompleteExit(i, data))
            => /\ DueReattemptDialog'
               /\ DueResponse' = Some(data)
               /\ Fns(calls') \cap {"markTestAsCompleted", "router.push"} = {}
               /\ route' = route]_vars
  /\ [][ReattemptDialogRendered]_vars
  /\ [][(choicePending
           /\ Fns(calls') \cap {"markTestAsCompleted", "router.push"} # {})
          => handleFinishTest]_vars

\* C5 as claimed: "Reattempt" calls onTestComplete(true, c) with c the code
\* that was sent in the request of the submission that opened the dialog.
C5_SubmittedCode ==
  [][(showReattemptDialog /\ "onTestComplete" \in Fns(calls'))
       => calls' = <<TestCompleteCall(submitted[1])>>]_vars

\* C5 amended: "Reattempt" closes the dialog and calls onTestComplete(true, c)
\* once, with c the code in the editor at the moment of the choice; the
\* choice itself writes no code.
C5_CurrentCode ==
  [][(showReattemptDialog /\ "onTestComplete" \in Fns(calls'))
       => /\ calls' = <<TestCompleteCall(code)>>
          /\ ~showReattemptDialog'
          /\ code' = code]_vars

\* C5 witness: "Reattempt" was chosen after the code was changed while the
\* request was in flight, and the callback got the changed code.
C5_Witness ==
  /\ calls = <<TestCompleteCall(code)>>
  /\ submitted # None /\ submitted[1] # code
  /\ ~showReattemptDialog

C7_FailureFrame ==
  /\ [][\A i \in DOMAIN inflight :
          (mounted /\ FailureExit(i))
            => /\ DueErrorDialog'
               /\ calls' = <<ToastFailure>>
               /\ code' = code
               /\ language' = language
               /\ queued'.code = queued.code]_vars
  /\ [][ErrorDialogRendered]_vars

\* C7 witness: a submission has just failed while the editor held text that
\* is no template and a language other than the initial one was selected;
\* the error dialog is queued to open and no setCode is queued.
C7_Witness ==
  /\ calls = <<ToastFailure>> /\ mounted
  /\ queued.showErrorDialog = Some(TRUE) /\ queued.code = None
  /\ code # defaultCode[language] /\ language # "python"

\* C8 as claimed: after an Advance outcome the code is the default template
\* of the language selected when the outcome is handled, onQuestionChange is
\* called once with the response's nextQuestion, and nothing navigates.
C8_AdvanceResetsToSelected ==
  [][\A i \in DOMAIN inflight, data \in ResponseData :
       (mounted /\ AdvanceExit(i, data))
         => /\ AfterRender' = defaultCode[language']
            /\ Count(calls', "onQuestionChange") = 1
            /\ QuestionChangeCall(data.nextQuestion[1]) \in {calls'[k] : k \in DOMAIN calls'}
            /\ Count(calls', "router.push") = 0
            /\ route' = route]_vars

\* C9 as claimed: selecting language L leaves L selected and, with the
\* effects run and their updates rendered, the code equal to L's default
\* template, whatever the state before.
C9_SelectResetsToTemplate ==
  [][\A L \in Language :
       handleLanguageChange(L)
         => (language' = L /\ code' = defaultCode[L]
             /\ AfterRender' = defaultCode[L])]_vars

\* C10 as claimed: once router.push('/test-complete') was called, no step
\* issues a network call.
C10_CompletedIsTerminal ==
  [][route = Some(CompleteRoute) => "fetch" \notin Fns(calls')]_vars

\* C11: a rejected fetch, a non-ok status and an ok response whose body has
\* an error are handled alike, whatever isComplete and nextQuestion say: the
\* failure toast, and the error dialog queued to open and committed by the
\* render that takes it from the queue; no onQuestionChange, no
\* markTestAsCompleted, no router.push, and the reattempt dialog and the
\* stored response neither written nor queued.
C11_FailuresAlike ==
  /\ [][\A i \in DOMAIN inflight :
          (/\ Ends
           /\ \/ FetchSettles(i, "rejected")
              \/ FetchSettles(i, "notOk")
              \/ \E data \in ResponseData :
                   Truthy(data.error) /\ JsonResolves(i, data))
            => /\ calls' = <<ToastFailure>>
               /\ mounted => DueErrorDialog'
               /\ showReattemptDialog' = showReattemptDialog
               /\ queued'.showReattemptDialog = queued.showReattemptDialog
               /\ submissionResponse' = submissionResponse
               /\ queued'.submissionResponse = queued.submissionResponse
               /\ route' = route
               /\ inflight' = RemoveAt(inflight, i)]_vars
  /\ [][ErrorDialogRendered]_vars

\* C11 witness: a failure has been handled and rendered: the error dialog is
\* the only dialog, nothing was stored, nothing navigated.
C11_Witness ==
  /\ submitted # None /\ mounted /\ inflight = <<>> /\ queued = NoQueue
  /\ showErrorDialog /\ ~showReattemptDialog
  /\ submissionResponse = None /\ route = None /\ ~choicePending

\* C12: a response with isComplete = true and a nextQuestion takes the
\* isComplete branch only: the reattempt dialog or the automatic completion,
\* by attemptsRemaining; the code is not reset (no setCode is called), the
\* error dialog is not written, onQuestionChange is not called, and the
\* invocation ends with setIsSubmitting(false) queued, which the render that
\* takes it from the queue commits.
C12_CompleteWins ==
  /\ [][\A i \in DOMAIN inflight, data \in ResponseData :
          (mounted /\ data.nextQuestion # None /\ CompleteExit(i, data))
            => /\ code' = code
               /\ queued'.code = queued.code
               /\ Count(calls', "onQuestionChange") = 0
               /\ ~DueSubmitting'
               /\ showErrorDialog' = showErrorDialog
               /\ queued'.showErrorDialog = queued.showErrorDialog
               /\ inflight' = RemoveAt(inflight, i)
               /\ IF inflight[i].attemptsRemaining > 0
                  THEN DueReattemptDialog' /\ DueResponse' = Some(data)
                       /\ calls' = <<ToastSuccess>>
                  ELSE calls' = <<ToastSuccess, MarkCall, PushCall>>]_vars
  /\ [][SubmittingRendered]_vars

\* C12 witness: the reattempt dialog is open on a stored response that has
\* both isComplete = true and a nextQuestion; the flag is cleared.
C12_Witness ==
  /\ showReattemptDialog /\ submissionResponse # None
  /\ submissionResponse[1].isComplete
  /\ submissionResponse[1].nextQuestion # None
  /\ ~isSubmitting /\ mounted /\ queued = NoQueue

\* C13 as claimed: a response that is handled after the component was
\* unmounted changes no state and calls no collaborator: no onQuestionChange,
\* no markTestAsCompleted, no router.push, no dialog.
C13_DiscardedAfterUnmount ==
  [][(~mounted /\ Ends)
       => /\ UNCHANGED <<state, queued>>
          /\ route' = route
          /\ Fns(calls') \cap {"onQuestionChange", "markTestAsCompleted",
                              "router.push"} = {}]_vars

\* C14 as claimed: the session-complete exit decides by the attemptsRemaining
\* that is current when the response is handled: the reattempt dialog when it
\* is above 0, the automatic completion when it is 0.
C14_LiveAttempts ==
  [][\A i \in DOMAIN inflight, data \in ResponseData :
       (mounted /\ CompleteExit(i, data))
         => IF attemptsRemaining > 0
            THEN DueReattemptDialog' /\ Count(calls', "markTestAsCompleted") = 0
            ELSE DueReattemptDialog' = DueReattemptDialog
                 /\ Count(calls', "markTestAsCompleted") = 1]_vars

\* C15 as claimed: the error dialog and the reattempt dialog are never open
\* together.
C15_OneDialog == ~(showErrorDialog /\ showReattemptDialog)

\* C16 as claimed: the reattempt dialog closes only in a step that calls
\* onTestComplete(true, code) or that calls markTestAsCompleted and
\* router.push.
C16_DialogLeavesByChoice ==
  [][(showReattemptDialog /\ ~showReattemptDialog')
       => \/ "onTestComplete" \in Fns(calls')
          \/ {"markTestAsCompleted", "router.push"} \subseteq Fns(calls')]_vars

\* C17: every step that calls onTestComplete(true, ...) starts in a state
\* with attemptsRemaining > 0.
C17_ReattemptNeedsAttempts ==
  [][("onTestComplete" \in Fns(calls')) => attemptsRemaining > 0]_vars

\* C17 witness: "Reattempt" has just been chosen with attempts remaining.
C17_Witness ==
  /\ Count(calls, "onTestComplete") = 1
  /\ attemptsRemaining > 0 /\ mounted

\* the request body of a suspended invocation
Body(req) == <<req.questionId, req.code, req.language>>

\* C18: the request sent by a submit carries currentQuestionId, code and
\* language as they are at the click; while it is in flight the editor and
\* the language select take input, and no step changes the request.
C18_RequestFixedAtSubmit ==
  /\ [][handleSubmit
          => /\ calls' = <<Call("fetch", <<SubmitUrl, currentQuestionId, code, language>>)>>
             /\ Body(inflight'[Len(inflight')]) = <<currentQuestionId, code, language>>]_vars
  /\ [][(inflight # <<>> /\ Len(inflight') = Len(inflight))
          => \A i \in DOMAIN inflight : Body(inflight'[i]) = Body(inflight[i])]_vars
  /\ []((inflight # <<>> /\ mounted)
          => /\ \A value \in EditorValues : ENABLED handleEditorChange(value)
             /\ \A value \in Language : ENABLED handleLanguageChange(value))

\* C18 witness: a request is in flight and question, code and language of
\* the screen all differ from those of the request.
C18_Witness ==
  /\ inflight # <<>> /\ mounted
  /\ inflight[1].code # code
  /\ inflight[1].language # language
  /\ inflight[1].questionId # currentQuestionId

\* C19: while a request is in flight the submitting flag is true.
C19_InFlightImpliesSubmitting == inflight # <<>> => isSubmitting

\* C19 witness: the response has arrived, its body is awaited, the flag is
\* still true.
C19_Witness ==
  /\ inflight # <<>> /\ inflight[1].stage = "json" /\ isSubmitting /\ mounted

\* C20: an ok response without error, isComplete and nextQuestion calls the
\* success toast and nothing else, and queues setIsSubmitting(false) and
\* nothing else; code, language, both dialog flags, the stored response and
\* the question are after the handling what they were before it; the render
\* that takes the queued update commits the cleared flag.
C20_EmptyResponse ==
  /\ [][\A i \in DOMAIN inflight, data \in ResponseData :
          (/\ mounted /\ Ends
           /\ ~Truthy(data.error) /\ ~data.isComplete /\ data.nextQuestion = None
           /\ JsonResolves(i, data))
            => /\ queued' = [queued EXCEPT !.isSubmitting = Some(FALSE)]
               /\ UNCHANGED <<code, language, showErrorDialog,
                              showReattemptDialog, submissionResponse,
                              currentQuestionId, route>>
               /\ calls' = <<ToastSuccess>>]_vars
  /\ [][SubmittingRendered]_vars

\* C20 witness: such a response has just been handled: the success toast
\* alone, the cleared flag alone in the queue, no dialog, the edited code
\* still in the editor.
C20_Witness ==
  /\ calls = <<ToastSuccess>> /\ mounted /\ inflight = <<>>
  /\ queued = [NoQueue EXCEPT !.isSubmitting = Some(FALSE)]
  /\ ~showErrorDialog /\ ~showReattemptDialog
  /\ submitted = Some(code) /\ code \notin {defaultCode[l] : l \in Language}

====
